---- MODULE Spec2Model ----
(***************************************************************************)
(* Tutorate server (src/index.js): the Express routes with their           *)
(* verifyToken / verifyRole middleware, run as concurrent requests against *)
(* the four MongoDB collections users, tuitions, applications, payments.   *)
(*                                                                         *)
(* A request occupies a slot of `req`.  Every `await` on a store call is   *)
(* one step: the store call takes effect atomically and the handler runs   *)
(* on to its next store call (or to its response).  Steps of different     *)
(* requests interleave freely, as Node's event loop lets them.             *)
(***************************************************************************)
EXTENDS Integers, FiniteSets, Sequences, Bags, TLC

VARIABLES
    users,          \* usersCollection:        _id -> [email, role, status]
    tuitions,       \* tuitionsCollection:     _id -> [studentId, status, applicants, tutorId]
    applications,   \* applicationsCollection: _id -> [tuitionPostId, tutorId, status, expectedSalary]
    payments,       \* paymentsCollection: a bag of payment records (each insert adds a document)
    emailIndexed,   \* whether the unique index users(email) exists in the store
    nextId,         \* the next fresh _id of each collection
    req,            \* the requests in flight, one per slot
    started,        \* number of requests accepted so far
    faults,         \* number of store calls that have thrown so far
    intents         \* the payment processor's PaymentIntents: a set of [applicationId, amount]

vars == <<users, tuitions, applications, payments, emailIndexed, nextId, req, started, faults,
          intents>>

stores == <<users, tuitions, applications, payments>>

(***************************************************************************)
(* Bounds of the model.                                                    *)
(***************************************************************************)
MaxReqs == 2            \* concurrent request slots
MaxRequests == 4        \* requests accepted in one behaviour
MaxTxn == 1             \* distinct payment-intent references
MaxSalary == 1          \* distinct expectedSalary values a tutor may send
MaxFaults == 1          \* store calls that may throw in one behaviour
MaxAuthRequests == 3    \* requests accepted in one behaviour of SpecAuth
MaxLifeRequests == 3    \* requests accepted in one behaviour of SpecSelf, SpecLife, SpecReview
MaxScenarioRequests == 7    \* requests accepted in one behaviour of SpecScenario

Reqs == 1..MaxReqs
TxnIds == 1..MaxTxn
Salaries == 1..MaxSalary

(***************************************************************************)
(* Values.                                                                 *)
(***************************************************************************)
Roles == {"student", "tutor", "admin"}

\* A response: HTTP status and the machine-readable `code` ("" when the
\* handler sends none).
Res(s, c) == [status |-> s, code |-> c]
NoRes == Res(0, "")
Continue == Res(0, "next")

\* `application` before the handler has read one, and findOne's null.
NullApp == [tuitionPostId |-> 0, tutorId |-> 0, status |-> "none", expectedSalary |-> 0]

IdleReq ==
    [op |-> "none", pc |-> "idle", token |-> "none", qemail |-> "none",
     arg |-> 0, num |-> 0, str |-> "",
     role |-> "none", ustatus |-> "none", user |-> 0, app |-> NullApp, res |-> NoRes]

\* The request after res.send: its route, its credential and what the
\* middleware read stay readable; the handler's parameters and locals are gone.
Done(rq, res) ==
    [IdleReq EXCEPT !.op = rq.op, !.pc = "done", !.token = rq.token,
                    !.role = rq.role, !.ustatus = rq.ustatus, !.res = res]

Free(r) == req[r].pc \in {"idle", "done"}

(***************************************************************************)
(* Store operations.                                                       *)
(***************************************************************************)
Min(S) == CHOOSE x \in S : \A y \in S : x <= y

\* usersCollection.findOne({ email }): the first matching document, 0 for null.
FindUserByEmail(e) ==
    LET m == {u \in DOMAIN users : users[u].email = e}
    IN  IF m = {} THEN 0 ELSE Min(m)

\* applicationsCollection.findOne({ _id }): NullApp for null.
FindApp(a) == IF a \in DOMAIN applications THEN applications[a] ELSE NullApp

AppsOf(t) == {a \in DOMAIN applications : applications[a].tuitionPostId = t}

\* updateOne({ _id }, { $set: { status } }) on applications: no match, no change.
SetAppStatus(apps, a, s) ==
    IF a \in DOMAIN apps THEN [apps EXCEPT ![a].status = s] ELSE apps

\* updateOne({ _id }, { $inc: { applicants: d } }) on tuitions.
IncApplicants(tus, t, d) ==
    IF t \in DOMAIN tus THEN [tus EXCEPT ![t].applicants = @ + d] ELSE tus

\* insertOne: the document gets a fresh _id.
Insert(coll, id, doc) == coll @@ (id :> doc)

\* deleteOne({ _id }).
Delete(coll, id) == [x \in DOMAIN coll \ {id} |-> coll[x]]

\* { $set: upd } on a document, for the fields of the document that the
\* model keeps.
SetFields(doc, upd) == [f \in DOMAIN doc |-> IF f \in DOMAIN upd THEN upd[f] ELSE doc[f]]

(***************************************************************************)
(* Routes: the verifyRole(...) of each route, the `code` its handler sends *)
(* on an email mismatch, and the checks it makes before its first await.   *)
(***************************************************************************)
PublicOps == {"register", "getTutors", "getTutor", "getTuitions", "getTuition"}

AllowedRoles(op) ==
    CASE op = "postTuition" -> {"student"}
      [] op = "decide"      -> {"student"}
      [] op = "apply"       -> {"tutor"}
      [] op = "withdraw"    -> {"tutor"}
      [] op = "adminStatus" -> {"admin"}
      [] op = "paySuccess"  -> {"student"}
      [] op = "editTuition" -> {"student"}
      [] op = "deleteTuition" -> {"student"}
      [] op = "editApp"     -> {"tutor"}
      [] op = "admTuition"  -> {"admin"}
      [] op = "adminRole"   -> {"admin"}
      [] op = "adminDelete" -> {"admin"}
      [] op = "createIntent" -> {"student"}
      [] op = "studentView" -> {"student", "admin"}
      [] OTHER              -> Roles

EmailCode(op) ==
    IF op \in {"postTuition", "decide", "apply", "withdraw", "getProfile", "activity",
               "editTuition", "deleteTuition", "editApp", "putProfile"}
    THEN "UNAUTHORIZED_ACCESS" ELSE ""

\* The handler's test of the `email` query parameter against the verified
\* email.  GET /api/users/activity writes it `!email === decoded_email`: a
\* boolean compared with a string, which is never true.  The handlers of
\* DELETE /api/users/profile and GET /api/tuitions/:id/student-view have no
\* such test.
EmailRefused(op, email, decoded_email) ==
    IF op \in {"activity", "deleteProfile", "studentView"} THEN FALSE
    ELSE email # decoded_email

FirstPc(op) ==
    CASE op = "register"    -> "regFindExisting"
      [] op = "postTuition" -> "postFindStudent"
      [] op = "decide"      -> "decFindApp"
      [] op = "apply"       -> "applyFindTutor"
      [] op = "withdraw"    -> "wdFindTutor"
      [] op = "adminStatus" -> "admUpdateStatus"
      [] op = "paySuccess"  -> "payFindApp"
      [] op = "getProfile"  -> "profFindUser"
      [] op = "activity"    -> "actFindUser"
      [] op = "editTuition" -> "etFindStudent"
      [] op = "deleteTuition" -> "dtFindStudent"
      [] op = "editApp"     -> "edFindTutor"
      [] op = "admTuition"  -> "admSetTuition"
      [] op = "putProfile"  -> "pfUpdate"
      [] op = "deleteProfile" -> "delProfile"
      [] op = "adminRole"   -> "admUpdateRole"
      [] op = "adminDelete" -> "adCountApps"
      [] op = "createIntent" -> "ciFindApp"
      [] op = "studentView" -> "svFindTuition"
      [] op = "getTutors"   -> "getTutors"
      [] op = "getTutor"    -> "getTutor"
      [] op = "getTuitions" -> "gtFind"
      [] op = "getTuition"  -> "getTuition"
      [] OTHER              -> "done"

\* The handler's synchronous validation before its first store call.
Prelude(op, rq) ==
    CASE op = "register" /\ rq.str \notin {"student", "tutor"} -> Res(400, "")
      [] op = "decide" /\ rq.str \notin {"approve", "reject"} -> Res(400, "")
      [] op = "adminStatus" /\ rq.str \notin {"active", "blocked", "pending"} -> Res(400, "")
      [] op = "adminRole" /\ rq.str \notin {"student", "tutor", "admin"} -> Res(400, "")
      [] OTHER -> Continue

(***************************************************************************)
(* Middleware.  A token is "none" (no Authorization header), "invalid" or  *)
(* "expired" (verifyIdToken throws), or the email the verifier decodes.    *)
(***************************************************************************)
\* verifyToken without its check of user.status.
verifyToken_noBlockedCheck(token) ==
    LET u == FindUserByEmail(token)
    IN  IF token = "none" THEN Res(401, "NO_TOKEN")
        ELSE IF token = "expired" THEN Res(401, "TOKEN_EXPIRED")
        ELSE IF token = "invalid" THEN Res(401, "INVALID_TOKEN")
        ELSE IF u = 0 THEN Res(401, "USER_NOT_FOUND")
        ELSE Continue

\* verifyToken without its branch on error.code "auth/id-token-expired".
verifyToken_noExpiredBranch(token) ==
    LET u == FindUserByEmail(token)
    IN  IF token = "none" THEN Res(401, "NO_TOKEN")
        ELSE IF token \in {"expired", "invalid"} THEN Res(401, "INVALID_TOKEN")
        ELSE IF u = 0 THEN Res(401, "USER_NOT_FOUND")
        ELSE IF users[u].status = "blocked" THEN Res(403, "ACCOUNT_BLOCKED")
        ELSE Continue

verifyToken(token) ==
    LET u == FindUserByEmail(token)
    IN  IF token = "none" THEN Res(401, "NO_TOKEN")
        ELSE IF token = "expired" THEN Res(401, "TOKEN_EXPIRED")
        ELSE IF token = "invalid" THEN Res(401, "INVALID_TOKEN")
        ELSE IF u = 0 THEN Res(401, "USER_NOT_FOUND")
        ELSE IF users[u].status = "blocked" THEN Res(403, "ACCOUNT_BLOCKED")
        ELSE Continue

\* verifyRole without its allowedRoles.includes(...) test.
verifyRole_noRoleCheck(allowedRoles, role) ==
    IF role = "none" THEN Res(401, "") ELSE Continue

verifyRole(allowedRoles, role) ==
    IF role = "none" THEN Res(401, "")
    ELSE IF role \notin allowedRoles THEN Res(403, "")
    ELSE Continue

\* A request arrives.  A public route runs its handler at once; any other
\* route runs verifyToken, which answers a missing header before any await.
Arrive(r, op, token, qemail, arg, num, str) ==
    LET rq == [IdleReq EXCEPT !.op = op, !.token = token, !.qemail = qemail,
                              !.arg = arg, !.num = num, !.str = str]
    IN  /\ Free(r)
        /\ \A q \in Reqs : q < r => ~Free(q)
        /\ started' = started + 1
        /\ req' = [req EXCEPT ![r] =
                IF op \in PublicOps
                THEN IF Prelude(op, rq) # Continue THEN Done(rq, Prelude(op, rq))
                     ELSE [rq EXCEPT !.pc = FirstPc(op)]
                ELSE IF token = "none" THEN Done(rq, verifyToken(token))
                ELSE [rq EXCEPT !.pc = "verifyToken"]]
        /\ UNCHANGED <<stores, emailIndexed, nextId, faults, intents>>

\* A request arrives while fewer than MaxRequests have been accepted.
Start(r, op, token, qemail, arg, num, str) ==
    /\ started < MaxRequests
    /\ Arrive(r, op, token, qemail, arg, num, str)

\* verifyToken's lookup of the Account resolves; then, without another
\* await, verifyRole and the handler's checks up to its first store call.
Authenticate(r) ==
    LET rq == req[r]
        t  == verifyToken(rq.token)
        u  == FindUserByEmail(rq.token)
        seen == IF rq.token \in {"invalid", "expired"} \/ u = 0
                THEN rq ELSE [rq EXCEPT !.ustatus = users[u].status]
        au == [seen EXCEPT !.role = users[u].role]
        g  == verifyRole(AllowedRoles(rq.op), au.role)
    IN  /\ rq.pc = "verifyToken"
        /\ req' = [req EXCEPT ![r] =
                IF t # Continue THEN Done(seen, t)
                ELSE IF g # Continue THEN Done(au, g)
                ELSE IF EmailRefused(au.op, au.qemail, au.token)
                     THEN Done(au, Res(401, EmailCode(au.op)))
                ELSE IF Prelude(au.op, au) # Continue THEN Done(au, Prelude(au.op, au))
                ELSE [au EXCEPT !.pc = FirstPc(au.op)]]
        /\ UNCHANGED <<stores, emailIndexed, nextId, started, faults, intents>>

\* An awaited store call throws (timeout, lost connection): the handler's
\* catch answers 500; verifyToken's catch answers 401 INVALID_TOKEN.
StoreFault(r) ==
    /\ ~Free(r)
    /\ faults < MaxFaults
    /\ faults' = faults + 1
    /\ req' = [req EXCEPT ![r] =
            IF req[r].pc = "verifyToken" THEN Done(req[r], Res(401, "INVALID_TOKEN"))
            ELSE Done(req[r], Res(500, ""))]
    /\ UNCHANGED <<stores, emailIndexed, nextId, started, intents>>

(***************************************************************************)
(* Helpers of the handler steps.                                           *)
(***************************************************************************)
Goto(r, p) == req' = [req EXCEPT ![r].pc = p]
Reply(r, s, c) == req' = [req EXCEPT ![r] = Done(req[r], Res(s, c))]
At(r, p) == req[r].pc = p

(***************************************************************************)
(* POST /api/applications (tutor)                                          *)
(***************************************************************************)
\* findOne({ email }) of the tutor, then the body's validation.
ApplyFindTutor(r) ==
    LET tutor == FindUserByEmail(req[r].qemail)
    IN  /\ At(r, "applyFindTutor")
        /\ req' = [req EXCEPT ![r] =
                IF tutor = 0 THEN Done(@, Res(404, ""))
                ELSE IF @.arg = 0 \/ @.num = 0 THEN Done(@, Res(400, ""))
                ELSE [@ EXCEPT !.user = tutor, !.pc = "applyFindTuition"]]
        /\ UNCHANGED <<stores, emailIndexed, nextId, started, faults, intents>>

\* findOne({ _id: tuitionId, status: "active" })
ApplyFindTuition(r) ==
    LET t == req[r].arg
    IN  /\ At(r, "applyFindTuition")
        /\ IF t \in DOMAIN tuitions /\ tuitions[t].status = "active"
           THEN Goto(r, "applyFindExisting")
           ELSE Reply(r, 404, "")
        /\ UNCHANGED <<stores, emailIndexed, nextId, started, faults, intents>>

\* findOne({ tuitionPostId, tutorId }): "already applied"
ApplyFindExisting(r) ==
    /\ At(r, "applyFindExisting")
    /\ IF \E a \in AppsOf(req[r].arg) : applications[a].tutorId = req[r].user
       THEN Reply(r, 400, "")
       ELSE Goto(r, "applyInsert")
    /\ UNCHANGED <<stores, emailIndexed, nextId, started, faults, intents>>

\* insertOne(newApplication)
ApplyInsert(r) ==
    /\ At(r, "applyInsert")
    /\ applications' = Insert(applications, nextId.app,
            [tuitionPostId |-> req[r].arg, tutorId |-> req[r].user,
             status |-> "pending", expectedSalary |-> req[r].num])
    /\ nextId' = [nextId EXCEPT !.app = @ + 1]
    /\ Goto(r, "applyInc")
    /\ UNCHANGED <<users, tuitions, payments, emailIndexed, started, faults, intents>>

\* updateOne({ _id: tuitionId }, { $inc: { applicants: 1 } })
ApplyInc(r) ==
    /\ At(r, "applyInc")
    /\ tuitions' = IncApplicants(tuitions, req[r].arg, 1)
    /\ Reply(r, 201, "")
    /\ UNCHANGED <<users, applications, payments, emailIndexed, nextId, started, faults, intents>>

(***************************************************************************)
(* DELETE /api/applications/:id (tutor): withdrawal                        *)
(***************************************************************************)
\* findOne({ email }); tutor._id of a null tutor throws into the catch.
WdFindTutor(r) ==
    LET tutor == FindUserByEmail(req[r].qemail)
    IN  /\ At(r, "wdFindTutor")
        /\ req' = [req EXCEPT ![r] =
                IF tutor = 0 THEN Done(@, Res(500, ""))
                ELSE [@ EXCEPT !.user = tutor, !.pc = "wdFindApp"]]
        /\ UNCHANGED <<stores, emailIndexed, nextId, started, faults, intents>>

\* findOne({ _id, tutorId }), then the pending check on what was read.
WdFindApp(r) ==
    LET application == FindApp(req[r].arg)
    IN  /\ At(r, "wdFindApp")
        /\ req' = [req EXCEPT ![r] =
                IF application = NullApp \/ application.tutorId # @.user
                THEN Done(@, Res(404, ""))
                ELSE IF application.status # "pending" THEN Done(@, Res(400, ""))
                ELSE [@ EXCEPT !.app = application, !.pc = "wdDelete"]]
        /\ UNCHANGED <<stores, emailIndexed, nextId, started, faults, intents>>

\* deleteOne({ _id })
WdDelete(r) ==
    /\ At(r, "wdDelete")
    /\ applications' = IF req[r].arg \in DOMAIN applications
                       THEN Delete(applications, req[r].arg) ELSE applications
    /\ Goto(r, "wdDec")
    /\ UNCHANGED <<users, tuitions, payments, emailIndexed, nextId, started, faults, intents>>

\* updateOne({ _id: application.tuitionPostId }, { $inc: { applicants: -1 } })
WdDec(r) ==
    /\ At(r, "wdDec")
    /\ tuitions' = IncApplicants(tuitions, req[r].app.tuitionPostId, -1)
    /\ Reply(r, 200, "")
    /\ UNCHANGED <<users, applications, payments, emailIndexed, nextId, started, faults, intents>>

(***************************************************************************)
(* PATCH /api/applications/:applicationId/:action (student)                *)
(***************************************************************************)
DecFindApp(r) ==
    LET application == FindApp(req[r].arg)
    IN  /\ At(r, "decFindApp")
        /\ req' = [req EXCEPT ![r] =
                IF application = NullApp THEN Done(@, Res(404, ""))
                ELSE [@ EXCEPT !.app = application, !.pc = "decFindStudent"]]
        /\ UNCHANGED <<stores, emailIndexed, nextId, started, faults, intents>>

\* findOne({ email }); student._id of a null student throws into the catch.
DecFindStudent(r) ==
    LET student == FindUserByEmail(req[r].qemail)
    IN  /\ At(r, "decFindStudent")
        /\ req' = [req EXCEPT ![r] =
                IF student = 0 THEN Done(@, Res(500, ""))
                ELSE [@ EXCEPT !.user = student, !.pc = "decFindTuition"]]
        /\ UNCHANGED <<stores, emailIndexed, nextId, started, faults, intents>>

\* DecFindTuition with an approve that goes on to the writes of a reject.
DecFindTuition_approveWrites(r) ==
    LET t == req[r].app.tuitionPostId
    IN  /\ At(r, "decFindTuition")
        /\ req' = [req EXCEPT ![r] =
                IF ~(t \in DOMAIN tuitions /\ tuitions[t].studentId = @.user)
                THEN Done(@, Res(403, ""))
                ELSE [@ EXCEPT !.pc = "decReject"]]
        /\ UNCHANGED <<stores, emailIndexed, nextId, started, faults, intents>>

\* findOne({ _id: application.tuitionPostId, studentId }): ownership; an
\* approve answers "Proceed to payment" and writes nothing.
DecFindTuition(r) ==
    LET t == req[r].app.tuitionPostId
    IN  /\ At(r, "decFindTuition")
        /\ req' = [req EXCEPT ![r] =
                IF ~(t \in DOMAIN tuitions /\ tuitions[t].studentId = @.user)
                THEN Done(@, Res(403, ""))
                ELSE IF @.str = "approve" THEN Done(@, Res(200, ""))
                ELSE [@ EXCEPT !.pc = "decReject"]]
        /\ UNCHANGED <<stores, emailIndexed, nextId, started, faults, intents>>

\* updateOne({ _id }, { $set: { status: "rejected" } })
DecReject(r) ==
    /\ At(r, "decReject")
    /\ applications' = SetAppStatus(applications, req[r].arg, "rejected")
    /\ Goto(r, "decDec")
    /\ UNCHANGED <<users, tuitions, payments, emailIndexed, nextId, started, faults, intents>>

\* updateOne({ _id: application.tuitionPostId }, { $inc: { applicants: -1 } })
DecDec(r) ==
    /\ At(r, "decDec")
    /\ tuitions' = IncApplicants(tuitions, req[r].app.tuitionPostId, -1)
    /\ Reply(r, 200, "")
    /\ UNCHANGED <<users, applications, payments, emailIndexed, nextId, started, faults, intents>>

(***************************************************************************)
(* POST /api/create-payment-intent (student)                               *)
(***************************************************************************)
\* findOne({ _id: applicationId })
CiFindApp(r) ==
    LET application == FindApp(req[r].arg)
    IN  /\ At(r, "ciFindApp")
        /\ req' = [req EXCEPT ![r] =
                IF application = NullApp THEN Done(@, Res(404, ""))
                ELSE [@ EXCEPT !.app = application, !.pc = "ciFindStudent"]]
        /\ UNCHANGED <<stores, emailIndexed, nextId, started, faults, intents>>

\* findOne({ email }); student._id of a null student throws into the catch.
CiFindStudent(r) ==
    LET student == FindUserByEmail(req[r].qemail)
    IN  /\ At(r, "ciFindStudent")
        /\ req' = [req EXCEPT ![r] =
                IF student = 0 THEN Done(@, Res(500, ""))
                ELSE [@ EXCEPT !.user = student, !.pc = "ciFindTuition"]]
        /\ UNCHANGED <<stores, emailIndexed, nextId, started, faults, intents>>

\* findOne({ _id: application.tuitionPostId, studentId }): 403 "You don't
\* have permission".
CiFindTuition(r) ==
    LET t == req[r].app.tuitionPostId
    IN  /\ At(r, "ciFindTuition")
        /\ IF t \in DOMAIN tuitions /\ tuitions[t].studentId = req[r].user
           THEN Goto(r, "ciCreate")
           ELSE Reply(r, 403, "")
        /\ UNCHANGED <<stores, emailIndexed, nextId, started, faults, intents>>

\* stripe.paymentIntents.create({ amount: application.expectedSalary * 100,
\* metadata: { applicationId, ... } }), with the Application read at the
\* first step.
CiCreate(r) ==
    /\ At(r, "ciCreate")
    /\ intents' = intents \cup
            {[applicationId |-> req[r].arg, amount |-> req[r].app.expectedSalary * 100]}
    /\ Reply(r, 200, "")
    /\ UNCHANGED <<stores, emailIndexed, nextId, started, faults>>

(***************************************************************************)
(* POST /api/payment/success (student)                                     *)
(***************************************************************************)
\* findOne({ _id: applicationId })
PayFindApp(r) ==
    LET application == FindApp(req[r].arg)
    IN  /\ At(r, "payFindApp")
        /\ req' = [req EXCEPT ![r] =
                IF application = NullApp THEN Done(@, Res(404, ""))
                ELSE [@ EXCEPT !.app = application, !.pc = "payFindStudent"]]
        /\ UNCHANGED <<stores, emailIndexed, nextId, started, faults, intents>>

\* findOne({ email }) of the student and findOne({ _id }) of the tuition;
\* neither result is tested, and the tuition read is not used again.
PayFindStudent(r) ==
    /\ At(r, "payFindStudent")
    /\ req' = [req EXCEPT ![r] =
            [@ EXCEPT !.user = FindUserByEmail(req[r].qemail), !.pc = "payApprove"]]
    /\ UNCHANGED <<stores, emailIndexed, nextId, started, faults, intents>>

\* 1. updateOne({ _id: applicationId }, { $set: { status: "approved" } })
PayApprove(r) ==
    /\ At(r, "payApprove")
    /\ applications' = SetAppStatus(applications, req[r].arg, "approved")
    /\ Goto(r, "payCommit")
    /\ UNCHANGED <<users, tuitions, payments, emailIndexed, nextId, started, faults, intents>>

\* Step 2 without tutorId in its $set.
PayCommit_noTutor(r) ==
    LET t == req[r].app.tuitionPostId
    IN  /\ At(r, "payCommit")
        /\ tuitions' = IF t \in DOMAIN tuitions
                       THEN [tuitions EXCEPT ![t].status = "completed"]
                       ELSE tuitions
        /\ Goto(r, "payRejectOthers")
        /\ UNCHANGED <<users, applications, payments, emailIndexed, nextId, started, faults, intents>>

\* 2. updateOne({ _id: application.tuitionPostId },
\*              { $set: { tutorId: application.tutorId, status: "completed" } })
PayCommit(r) ==
    LET t == req[r].app.tuitionPostId
    IN  /\ At(r, "payCommit")
        /\ tuitions' = IF t \in DOMAIN tuitions
                       THEN [tuitions EXCEPT ![t].tutorId = req[r].app.tutorId,
                                             ![t].status = "completed"]
                       ELSE tuitions
        /\ Goto(r, "payRejectOthers")
        /\ UNCHANGED <<users, applications, payments, emailIndexed, nextId, started, faults, intents>>

\* The filter of step 3 without its status: "pending".
OtherPending_anyStatus(apps, t, a) ==
    {b \in DOMAIN apps : apps[b].tuitionPostId = t /\ b # a}

\* The filter of step 3:
\* { tuitionPostId, _id: { $ne: applicationId }, status: "pending" }
OtherPending(apps, t, a) ==
    {b \in DOMAIN apps : apps[b].tuitionPostId = t /\ b # a /\ apps[b].status = "pending"}

\* 3. updateMany({ tuitionPostId, _id: { $ne: applicationId }, status: "pending" },
\*               { $set: { status: "rejected" } });
\* then paymentRecord is built: student._id of a null student throws.
PayRejectOthers(r) ==
    /\ At(r, "payRejectOthers")
    /\ applications' =
            [a \in DOMAIN applications |->
                IF a \in OtherPending(applications, req[r].app.tuitionPostId, req[r].arg)
                THEN [applications[a] EXCEPT !.status = "rejected"]
                ELSE applications[a]]
    /\ IF req[r].user = 0 THEN Reply(r, 500, "") ELSE Goto(r, "payInsert")
    /\ UNCHANGED <<users, tuitions, payments, emailIndexed, nextId, started, faults, intents>>

\* 4. insertOne(paymentRecord)
PayInsert(r) ==
    /\ At(r, "payInsert")
    /\ payments' = payments (+) SetToBag({
            [applicationId |-> req[r].arg, tuitionId |-> req[r].app.tuitionPostId,
             studentId |-> req[r].user, tutorId |-> req[r].app.tutorId,
             amount |-> req[r].app.expectedSalary, transactionId |-> req[r].num]})
    /\ Reply(r, 200, "")
    /\ UNCHANGED <<users, tuitions, applications, emailIndexed, nextId, started, faults, intents>>

(***************************************************************************)
(* POST /api/users: registration (public)                                  *)
(***************************************************************************)
\* findOne({ email }): "User with this email already exists"
RegFindExisting(r) ==
    /\ At(r, "regFindExisting")
    /\ IF FindUserByEmail(req[r].qemail) # 0 THEN Reply(r, 400, "") ELSE Goto(r, "regInsert")
    /\ UNCHANGED <<stores, emailIndexed, nextId, started, faults, intents>>

\* newUser.status without the test of the role.
InitialStatus_active(role) == "active"

\* newUser.status: role === "tutor" ? "pending" : "active"
InitialStatus(role) == IF role = "tutor" THEN "pending" ELSE "active"

\* insertOne(newUser): with the unique index on email a duplicate key
\* throws into the catch; without it the document is inserted.
RegInsert(r) ==
    /\ At(r, "regInsert")
    /\ IF emailIndexed /\ FindUserByEmail(req[r].qemail) # 0
       THEN /\ Reply(r, 500, "")
            /\ UNCHANGED <<users, nextId>>
       ELSE /\ users' = Insert(users, nextId.user,
                    [email |-> req[r].qemail, role |-> req[r].str,
                     status |-> InitialStatus(req[r].str)])
            /\ nextId' = [nextId EXCEPT !.user = @ + 1]
            /\ Reply(r, 201, "")
    /\ UNCHANGED <<tuitions, applications, payments, emailIndexed, started, faults, intents>>

(***************************************************************************)
(* PATCH /api/admin/users/:userId/status (admin)                           *)
(***************************************************************************)
\* updateOne({ _id: userId }, { $set: { status } }); matchedCount 0 is a 404.
AdmUpdateStatus(r) ==
    LET u == req[r].arg
    IN  /\ At(r, "admUpdateStatus")
        /\ IF u \in DOMAIN users
           THEN /\ users' = [users EXCEPT ![u].status = req[r].str]
                /\ Reply(r, 200, "")
           ELSE /\ Reply(r, 404, "")
                /\ UNCHANGED users
        /\ UNCHANGED <<tuitions, applications, payments, emailIndexed, nextId, started, faults, intents>>

(***************************************************************************)
(* POST /api/tuitions (student)                                            *)
(***************************************************************************)
\* findOne({ email }) of the student: "Student not found"
PostFindStudent(r) ==
    LET student == FindUserByEmail(req[r].qemail)
    IN  /\ At(r, "postFindStudent")
        /\ req' = [req EXCEPT ![r] =
                IF student = 0 THEN Done(@, Res(404, ""))
                ELSE [@ EXCEPT !.user = student, !.pc = "postInsert"]]
        /\ UNCHANGED <<stores, emailIndexed, nextId, started, faults, intents>>

\* insertOne(newTuition): status "pending", applicants 0
PostInsert(r) ==
    /\ At(r, "postInsert")
    /\ tuitions' = Insert(tuitions, nextId.tuition,
            [studentId |-> req[r].user, status |-> "pending", applicants |-> 0, tutorId |-> 0])
    /\ nextId' = [nextId EXCEPT !.tuition = @ + 1]
    /\ Reply(r, 201, "")
    /\ UNCHANGED <<users, applications, payments, emailIndexed, started, faults, intents>>

(***************************************************************************)
(* GET /api/users/profile and GET /api/users/activity (any role)           *)
(***************************************************************************)
\* findOne({ email }, projection): "User not found" or the profile.
ProfFindUser(r) ==
    /\ At(r, "profFindUser")
    /\ IF FindUserByEmail(req[r].qemail) = 0 THEN Reply(r, 404, "") ELSE Reply(r, 200, "")
    /\ UNCHANGED <<stores, emailIndexed, nextId, started, faults, intents>>

\* findOne({ email }) with the email of the query; user.role of a null user
\* throws into the catch; an admin's activity is the empty list.
ActFindUser(r) ==
    LET user == FindUserByEmail(req[r].qemail)
    IN  /\ At(r, "actFindUser")
        /\ req' = [req EXCEPT ![r] =
                IF user = 0 THEN Done(@, Res(500, ""))
                ELSE IF users[user].role \notin {"tutor", "student"} THEN Done(@, Res(200, ""))
                ELSE [@ EXCEPT !.user = user, !.pc = "actRead"]]
        /\ UNCHANGED <<stores, emailIndexed, nextId, started, faults, intents>>

\* The applications of the tutor user._id, or the tuitions of the student
\* user._id, are read and sent.
ActRead(r) ==
    /\ At(r, "actRead")
    /\ Reply(r, 200, "")
    /\ UNCHANGED <<stores, emailIndexed, nextId, started, faults, intents>>

(***************************************************************************)
(* PUT /api/tuitions/:id (student): the owner edits a post.  `str` is the  *)
(* `status` of the request body, "" when the body has none.                *)
(***************************************************************************)
\* findOne({ email }); student._id of a null student throws into the catch.
EtFindStudent(r) ==
    LET student == FindUserByEmail(req[r].qemail)
    IN  /\ At(r, "etFindStudent")
        /\ req' = [req EXCEPT ![r] =
                IF student = 0 THEN Done(@, Res(500, ""))
                ELSE [@ EXCEPT !.user = student, !.pc = "etFindTuition"]]
        /\ UNCHANGED <<stores, emailIndexed, nextId, started, faults, intents>>

\* findOne({ _id, studentId }); then updateData is built with
\* status: status || existingTuition.status.
EtFindTuition(r) ==
    LET t == req[r].arg
    IN  /\ At(r, "etFindTuition")
        /\ req' = [req EXCEPT ![r] =
                IF ~(t \in DOMAIN tuitions /\ tuitions[t].studentId = @.user)
                THEN Done(@, Res(404, ""))
                ELSE [@ EXCEPT !.str = IF req[r].str = "" THEN tuitions[t].status
                                       ELSE req[r].str,
                               !.pc = "etUpdate"]]
        /\ UNCHANGED <<stores, emailIndexed, nextId, started, faults, intents>>

\* updateData with the applicants of the body in it.
TuitionUpdateData_withApplicants(status) ==
    [title |-> "body", minBudget |-> "body", maxBudget |-> "body", slots |-> "body",
     applicants |-> 0, status |-> status]

\* updateData of the edit: the listed fields of the body (title ... slots,
\* applicationDeadline), the status computed from the body and the post
\* read, and updatedAt: new Date().
TuitionUpdateData(status) ==
    [title |-> "body", minBudget |-> "body", maxBudget |-> "body", slots |-> "body",
     status |-> status, updatedAt |-> "now"]

\* updateOne({ _id }, { $set: updateData }); no match is "No changes made".
EtUpdate(r) ==
    LET t == req[r].arg
    IN  /\ At(r, "etUpdate")
        /\ IF t \in DOMAIN tuitions
           THEN /\ tuitions' = [tuitions EXCEPT
                        ![t] = SetFields(@, TuitionUpdateData(req[r].str))]
                /\ Goto(r, "etReadBack")
           ELSE /\ Reply(r, 400, "")
                /\ UNCHANGED tuitions
        /\ UNCHANGED <<users, applications, payments, emailIndexed, nextId, started, faults, intents>>

\* findOne({ _id }) of the updated post, which is sent.
EtReadBack(r) ==
    /\ At(r, "etReadBack")
    /\ Reply(r, 200, "")
    /\ UNCHANGED <<stores, emailIndexed, nextId, started, faults, intents>>

(***************************************************************************)
(* DELETE /api/tuitions/:id (student): the owner deletes a post.           *)
(***************************************************************************)
\* The statuses in which the handler refuses to delete.
\* (Without the test: the set is empty.)
LockedStatuses_none == {}

LockedStatuses == {"ongoing", "completed"}

\* findOne({ email }); student._id of a null student throws into the catch.
DtFindStudent(r) ==
    LET student == FindUserByEmail(req[r].qemail)
    IN  /\ At(r, "dtFindStudent")
        /\ req' = [req EXCEPT ![r] =
                IF student = 0 THEN Done(@, Res(500, ""))
                ELSE [@ EXCEPT !.user = student, !.pc = "dtFindTuition"]]
        /\ UNCHANGED <<stores, emailIndexed, nextId, started, faults, intents>>

\* findOne({ _id, studentId }), then the test of tuition.status.
DtFindTuition(r) ==
    LET t == req[r].arg
    IN  /\ At(r, "dtFindTuition")
        /\ req' = [req EXCEPT ![r] =
                IF ~(t \in DOMAIN tuitions /\ tuitions[t].studentId = @.user)
                THEN Done(@, Res(404, ""))
                ELSE IF tuitions[t].status \in LockedStatuses THEN Done(@, Res(400, ""))
                ELSE [@ EXCEPT !.pc = "dtCount"]]
        /\ UNCHANGED <<stores, emailIndexed, nextId, started, faults, intents>>

\* applicationsCollection.countDocuments({ tuitionPostId })
DtCount(r) ==
    /\ At(r, "dtCount")
    /\ req' = [req EXCEPT ![r].num = Cardinality(AppsOf(req[r].arg)), ![r].pc = "dtRemove"]
    /\ UNCHANGED <<stores, emailIndexed, nextId, started, faults, intents>>

\* The deletion the handler picks from the count it read: soft
\* (updateOne $set status "deleted") when applications > 0, else hard
\* (deleteOne).
RemoveTuition_alwaysHard(tus, t, applicationCount) ==
    IF t \notin DOMAIN tus THEN tus ELSE Delete(tus, t)

RemoveTuition(tus, t, applicationCount) ==
    IF t \notin DOMAIN tus THEN tus
    ELSE IF applicationCount > 0 THEN [tus EXCEPT ![t].status = "deleted"]
    ELSE Delete(tus, t)

\* The updateOne or deleteOne; its result is not looked at.
DtRemove(r) ==
    /\ At(r, "dtRemove")
    /\ tuitions' = RemoveTuition(tuitions, req[r].arg, req[r].num)
    /\ Reply(r, 200, "")
    /\ UNCHANGED <<users, applications, payments, emailIndexed, nextId, started, faults, intents>>

(***************************************************************************)
(* PATCH /api/admin/tuitions/:tuitionId/approve and .../reject (admin).    *)
(* `str` is the last segment of the path.                                  *)
(***************************************************************************)
\* updateOne({ _id }, { $set: { status: "active" } }), or status "rejected";
\* matchedCount 0 is "Tuition not found".
AdmSetTuition(r) ==
    LET t == req[r].arg
    IN  /\ At(r, "admSetTuition")
        /\ IF t \in DOMAIN tuitions
           THEN /\ tuitions' = [tuitions EXCEPT ![t].status =
                        IF req[r].str = "approve" THEN "active" ELSE "rejected"]
                /\ Reply(r, 200, "")
           ELSE /\ Reply(r, 404, "")
                /\ UNCHANGED tuitions
        /\ UNCHANGED <<users, applications, payments, emailIndexed, nextId, started, faults, intents>>

(***************************************************************************)
(* PUT /api/applications/:id (tutor): the tutor edits an application.      *)
(***************************************************************************)
\* findOne({ email }); tutor._id of a null tutor throws into the catch.
EdFindTutor(r) ==
    LET tutor == FindUserByEmail(req[r].qemail)
    IN  /\ At(r, "edFindTutor")
        /\ req' = [req EXCEPT ![r] =
                IF tutor = 0 THEN Done(@, Res(500, ""))
                ELSE [@ EXCEPT !.user = tutor, !.pc = "edFindApp"]]
        /\ UNCHANGED <<stores, emailIndexed, nextId, started, faults, intents>>

\* findOne({ _id, tutorId }), then the pending check on what was read.
EdFindApp(r) ==
    LET application == FindApp(req[r].arg)
    IN  /\ At(r, "edFindApp")
        /\ req' = [req EXCEPT ![r] =
                IF application = NullApp \/ application.tutorId # @.user
                THEN Done(@, Res(404, ""))
                ELSE IF application.status # "pending" THEN Done(@, Res(400, ""))
                ELSE [@ EXCEPT !.app = application, !.pc = "edUpdate"]]
        /\ UNCHANGED <<stores, emailIndexed, nextId, started, faults, intents>>

\* updateOne({ _id }, { $set: { ..., expectedSalary } })
EdUpdate(r) ==
    LET a == req[r].arg
    IN  /\ At(r, "edUpdate")
        /\ applications' = IF a \in DOMAIN applications
                           THEN [applications EXCEPT ![a].expectedSalary = req[r].num]
                           ELSE applications
        /\ Goto(r, "edReadBack")
        /\ UNCHANGED <<users, tuitions, payments, emailIndexed, nextId, started, faults, intents>>

\* findOne({ _id }) of the updated application, which is sent.
EdReadBack(r) ==
    /\ At(r, "edReadBack")
    /\ Reply(r, 200, "")
    /\ UNCHANGED <<stores, emailIndexed, nextId, started, faults, intents>>

(***************************************************************************)
(* PUT /api/users/profile (any role).  `str` is the `role` of the request  *)
(* body, "" when the body has none.                                        *)
(***************************************************************************)
\* updateData of the profile: name, phone, photoURL, location, bio,
\* whatsapp and the fields of the caller's role, taken from the body, and
\* updatedAt; nothing else of the body.
ProfileUpdateData(bodyRole) == [name |-> "body", phone |-> "body", updatedAt |-> "now"]

\* updateOne({ email }, { $set: updateData }) on the first Account with the
\* email; matchedCount 0 is "User not found".
PfUpdate(r) ==
    LET u == FindUserByEmail(req[r].qemail)
    IN  /\ At(r, "pfUpdate")
        /\ IF u # 0
           THEN /\ users' = [users EXCEPT ![u] = SetFields(@, ProfileUpdateData(req[r].str))]
                /\ Goto(r, "pfReadBack")
           ELSE /\ Reply(r, 404, "")
                /\ UNCHANGED users
        /\ UNCHANGED <<tuitions, applications, payments, emailIndexed, nextId, started, faults, intents>>

\* findOne({ email }) of the updated Account, which is sent.
PfReadBack(r) ==
    /\ At(r, "pfReadBack")
    /\ Reply(r, 200, "")
    /\ UNCHANGED <<stores, emailIndexed, nextId, started, faults, intents>>

(***************************************************************************)
(* DELETE /api/users/profile (any role)                                    *)
(***************************************************************************)
\* The filter of the updateOne is { email: req.user.email }.  verifyToken
\* sets req.decoded_user and nothing sets req.user: reading .email of
\* undefined throws before the store is called, and the catch answers 500.
DelProfile(r) ==
    /\ At(r, "delProfile")
    /\ Reply(r, 500, "")
    /\ UNCHANGED <<stores, emailIndexed, nextId, started, faults, intents>>

(***************************************************************************)
(* PATCH /api/admin/users/:userId/role (admin)                             *)
(***************************************************************************)
\* updateOne({ _id: userId }, { $set: { role } }); matchedCount 0 is a 404.
AdmUpdateRole(r) ==
    LET u == req[r].arg
    IN  /\ At(r, "admUpdateRole")
        /\ IF u \in DOMAIN users
           THEN /\ users' = [users EXCEPT ![u].role = req[r].str]
                /\ Reply(r, 200, "")
           ELSE /\ Reply(r, 404, "")
                /\ UNCHANGED users
        /\ UNCHANGED <<tuitions, applications, payments, emailIndexed, nextId, started, faults, intents>>

(***************************************************************************)
(* DELETE /api/admin/users/:userId (admin).  `num` is 1 when a count read  *)
(* so far was positive.                                                    *)
(***************************************************************************)
\* applicationsCollection.countDocuments({ $or: [{ studentId }, { tutorId }] });
\* an application document has no studentId.
AdCountApps(r) ==
    LET n == Cardinality({a \in DOMAIN applications : applications[a].tutorId = req[r].arg})
    IN  /\ At(r, "adCountApps")
        /\ req' = [req EXCEPT ![r].num = IF n > 0 THEN 1 ELSE 0, ![r].pc = "adCountTuitions"]
        /\ UNCHANGED <<stores, emailIndexed, nextId, started, faults, intents>>

\* tuitionsCollection.countDocuments({ studentId })
AdCountTuitions(r) ==
    LET n == Cardinality({t \in DOMAIN tuitions : tuitions[t].studentId = req[r].arg})
    IN  /\ At(r, "adCountTuitions")
        /\ req' = [req EXCEPT ![r].num = IF n > 0 THEN 1 ELSE @, ![r].pc = "adRemove"]
        /\ UNCHANGED <<stores, emailIndexed, nextId, started, faults, intents>>

\* applications > 0 || tuitions > 0: updateOne $set status "deleted";
\* else deleteOne.  Neither result is looked at.
AdRemove(r) ==
    LET u == req[r].arg
    IN  /\ At(r, "adRemove")
        /\ users' = IF u \notin DOMAIN users THEN users
                    ELSE IF req[r].num > 0 THEN [users EXCEPT ![u].status = "deleted"]
                    ELSE Delete(users, u)
        /\ Reply(r, 200, "")
        /\ UNCHANGED <<tuitions, applications, payments, emailIndexed, nextId, started, faults, intents>>

(***************************************************************************)
(* The public reads: GET /api/tutors, /api/tutors/:id, /api/tuitions and   *)
(* /api/tuitions/:id.  The answer keeps in `num` the _id of the document   *)
(* sent (0: none), or the length of the array sent.                        *)
(***************************************************************************)
\* The request is answered 200 with the document id, or with n documents.
Send(r, n) ==
    req' = [req EXCEPT ![r] = [Done(@, Res(200, "")) EXCEPT !.num = n]]

\* find({ role: "tutor", status: "active" })
ListedTutors(us) ==
    {u \in DOMAIN us : us[u].role = "tutor" /\ us[u].status = "active"}

\* find({ status: "active" }) with no search parameter
ListedTuitions(tus) == {t \in DOMAIN tus : tus[t].status = "active"}

GetTutors(r) ==
    /\ At(r, "getTutors")
    /\ Send(r, Cardinality(ListedTutors(users)))
    /\ UNCHANGED <<stores, emailIndexed, nextId, started, faults, intents>>

\* findOne({ _id, role: "tutor" }): "Tutor not found" or the Account.
GetTutor(r) ==
    LET u == req[r].arg
    IN  /\ At(r, "getTutor")
        /\ IF u \in DOMAIN users /\ users[u].role = "tutor"
           THEN Send(r, u)
           ELSE Reply(r, 404, "")
        /\ UNCHANGED <<stores, emailIndexed, nextId, started, faults, intents>>

\* find(filter).sort().skip().limit().toArray()
GtFind(r) ==
    /\ At(r, "gtFind")
    /\ req' = [req EXCEPT ![r].num = Cardinality(ListedTuitions(tuitions)), ![r].pc = "gtCount"]
    /\ UNCHANGED <<stores, emailIndexed, nextId, started, faults, intents>>

\* countDocuments(filter); the array read before is sent with the total.
GtCount(r) ==
    /\ At(r, "gtCount")
    /\ Send(r, req[r].num)
    /\ UNCHANGED <<stores, emailIndexed, nextId, started, faults, intents>>

\* findOne({ _id, status: "active" }): "Tuition post not found" or the post.
GetTuition(r) ==
    LET t == req[r].arg
    IN  /\ At(r, "getTuition")
        /\ IF t \in DOMAIN tuitions /\ tuitions[t].status = "active"
           THEN Send(r, t)
           ELSE Reply(r, 404, "")
        /\ UNCHANGED <<stores, emailIndexed, nextId, started, faults, intents>>

(***************************************************************************)
(* GET /api/tuitions/:id/student-view (student, admin).  `str` and `num`   *)
(* keep the status and the studentId of the post read.                     *)
(***************************************************************************)
\* findOne({ _id }): "Tuition post not found" or the post.
SvFindTuition(r) ==
    LET t == req[r].arg
    IN  /\ At(r, "svFindTuition")
        /\ req' = [req EXCEPT ![r] =
                IF t \notin DOMAIN tuitions THEN Done(@, Res(404, ""))
                ELSE [@ EXCEPT !.str = tuitions[t].status, !.num = tuitions[t].studentId,
                               !.pc = "svFindUser"]]
        /\ UNCHANGED <<stores, emailIndexed, nextId, started, faults, intents>>

\* The answer for every student is that of the owner.
StudentView_anyStudent(userRole, status, isOwner) ==
    IF userRole \in {"admin", "student"} THEN Res(200, "") ELSE Res(403, "")

\* The branches on user?.role: an admin is sent the post; a student is sent
\* an active post or an own post, and refused otherwise; anyone else is
\* refused.
StudentView(userRole, status, isOwner) ==
    IF userRole = "admin" THEN Res(200, "")
    ELSE IF userRole = "student"
         THEN IF status = "active" THEN Res(200, "")
              ELSE IF isOwner THEN Res(200, "")
              ELSE Res(403, "")
    ELSE Res(403, "")

\* findOne({ email: req.decoded_user.email }), then the branches.
SvFindUser(r) ==
    LET user == FindUserByEmail(req[r].token)
        userRole == IF user = 0 THEN "none" ELSE users[user].role
        res == StudentView(userRole, req[r].str, user # 0 /\ req[r].num = user)
    IN  /\ At(r, "svFindUser")
        /\ IF res = Res(200, "") THEN Send(r, req[r].arg) ELSE Reply(r, res.status, res.code)
        /\ UNCHANGED <<stores, emailIndexed, nextId, started, faults, intents>>

(***************************************************************************)
(* Specification Spec: the assignment flow.  The store holds what the      *)
(* registration of a student and two tutors, their activation, a posted    *)
(* tuition and its approval by an admin leave behind; tutors apply and     *)
(* withdraw, the student decides and confirms payments.                    *)
(***************************************************************************)
SeedUsers ==
    (1 :> [email |-> "s1", role |-> "student", status |-> "active"]) @@
    (2 :> [email |-> "t1", role |-> "tutor", status |-> "active"]) @@
    (3 :> [email |-> "t2", role |-> "tutor", status |-> "active"])

SeedTuitions ==
    (1 :> [studentId |-> 1, status |-> "active", applicants |-> 0, tutorId |-> 0])

EmptyColl == [x \in {} |-> 0]

Init ==
    /\ users = SeedUsers
    /\ tuitions = SeedTuitions
    /\ applications = EmptyColl
    /\ payments = EmptyBag
    /\ emailIndexed = FALSE
    /\ nextId = [user |-> 4, tuition |-> 2, app |-> 1]
    /\ req = [r \in Reqs |-> IdleReq]
    /\ started = 0
    /\ faults = 0
    /\ intents = {}

\* The ids of the applications inserted so far (withdrawn ones included).
IssuedApps == 1..(nextId.app - 1)

StartApply ==
    \E r \in Reqs, tutor \in {"t1", "t2"}, salary \in Salaries :
        Start(r, "apply", tutor, tutor, 1, salary, "")

StartWithdraw ==
    \E r \in Reqs, tutor \in {"t1", "t2"}, a \in IssuedApps :
        Start(r, "withdraw", tutor, tutor, a, 0, "")

StartDecide ==
    \E r \in Reqs, a \in IssuedApps, action \in {"approve", "reject"} :
        Start(r, "decide", "s1", "s1", a, 0, action)

StartPay ==
    \E r \in Reqs, a \in IssuedApps, txn \in TxnIds :
        Start(r, "paySuccess", "s1", "s1", a, txn, "")

ApplySteps(r) ==
    \/ ApplyFindTutor(r) \/ ApplyFindTuition(r) \/ ApplyFindExisting(r)
    \/ ApplyInsert(r) \/ ApplyInc(r)

WithdrawSteps(r) == WdFindTutor(r) \/ WdFindApp(r) \/ WdDelete(r) \/ WdDec(r)

DecideSteps(r) ==
    \/ DecFindApp(r) \/ DecFindStudent(r) \/ DecFindTuition(r)
    \/ DecReject(r) \/ DecDec(r)

PaySteps(r) ==
    \/ PayFindApp(r) \/ PayFindStudent(r) \/ PayApprove(r) \/ PayCommit(r)
    \/ PayRejectOthers(r) \/ PayInsert(r)

Next ==
    \/ StartApply \/ StartWithdraw \/ StartDecide \/ StartPay
    \/ \E r \in Reqs :
        \/ Authenticate(r)
        \/ ApplySteps(r) \/ WithdrawSteps(r) \/ DecideSteps(r) \/ PaySteps(r)

Spec == Init /\ [][Next]_vars

\* Spec with one request at a time: a request is accepted only when no
\* other is in flight.
Quiescent == \A q \in Reqs : Free(q)

Steps ==
    \E r \in Reqs :
        \/ Authenticate(r)
        \/ ApplySteps(r) \/ WithdrawSteps(r) \/ DecideSteps(r) \/ PaySteps(r)

NextSeq ==
    \/ Quiescent /\ StartApply
    \/ Quiescent /\ StartWithdraw
    \/ Quiescent /\ StartDecide
    \/ Quiescent /\ StartPay
    \/ Steps

SpecSeq == Init /\ [][NextSeq]_vars

\* Spec with store calls that may throw (a timeout, a lost connection).
NextFault == Next \/ \E r \in Reqs : StoreFault(r)

SpecFault == Init /\ [][NextFault]_vars

(***************************************************************************)
(* Vocabulary of the claims.                                               *)
(***************************************************************************)
ApprovedOf(apps, t) ==
    {a \in DOMAIN apps : apps[a].tuitionPostId = t /\ apps[a].status = "approved"}

\* Number of PaymentRecords in p whose fields f agree with the record k.
CountMatching(p, k) ==
    LET m == {q \in BagToSet(p) : \A f \in DOMAIN k : q[f] = k[f]}
    IN  BagCardinality([q \in m |-> p[q]])

PayInProgress(r) == req[r].op = "paySuccess" /\ ~Free(r)

\* The request r answers its payment confirmation with success in this step.
PayCompletes(r) ==
    /\ req[r].pc = "payInsert"
    /\ req'[r].pc = "done"
    /\ req'[r].res.status = 200

\* C1: when a payment confirmation for an Application of a post completes,
\* exactly one Application of that post is `approved` and exactly one
\* PaymentRecord exists for that (post, application) pair.  (The rejection
\* of the siblings pending at that moment is step 3 of the handler.)
C1_AssignmentOutcome ==
    [][\A r \in Reqs : PayCompletes(r) =>
            LET a == req[r].arg
                t == req[r].app.tuitionPostId
            IN  /\ Cardinality(ApprovedOf(applications', t)) = 1
                /\ CountMatching(payments', [tuitionId |-> t, applicationId |-> a]) = 1]_vars

\* C2: at most one Application per TuitionPost is `approved`.
C2_AtMostOneApproved ==
    \A t \in DOMAIN tuitions : Cardinality(ApprovedOf(applications, t)) <= 1

\* C3: payment confirmations with the same application id and transaction
\* reference leave exactly one PaymentRecord, and a confirmation whose
\* record already exists changes no Application and no TuitionPost.
C3_Idempotent ==
    [][/\ \A a \in IssuedApps, x \in TxnIds :
            CountMatching(payments', [applicationId |-> a, transactionId |-> x]) <= 1
       /\ \A r \in Reqs :
            ( /\ PayInProgress(r)
              /\ req'[r] # req[r]
              /\ CountMatching(payments,
                    [applicationId |-> req[r].arg, transactionId |-> req[r].num]) >= 1 )
            => (applications' = applications /\ tuitions' = tuitions)]_vars

\* The post a request in its handler works on, 0 when it has none.
TargetPost(rq) ==
    IF rq.op = "apply" THEN rq.arg
    ELSE IF rq.app # NullApp THEN rq.app.tuitionPostId
    ELSE FindApp(rq.arg).tuitionPostId

\* The steps that read or write the applications or the tuition of a post.
PostPcs ==
    {"applyFindTuition", "applyFindExisting", "applyInsert", "applyInc",
     "wdFindApp", "wdDelete", "wdDec",
     "decFindApp", "decFindTuition", "decReject", "decDec",
     "payFindApp", "payApprove", "payCommit", "payRejectOthers", "payInsert"}

\* Step 1 of the confirmation is applied and step 4 is not yet.
PayPartial(r) ==
    req[r].op = "paySuccess" /\ req[r].pc \in {"payCommit", "payRejectOthers", "payInsert"}

\* C4: the four steps of a payment confirmation are one unit: while only
\* some of them are applied, no other request reads or writes the state of
\* the same TuitionPost.
C4_AssignmentIsAtomic ==
    [][\A r \in Reqs : PayPartial(r) =>
            \A q \in Reqs \ {r} :
                ( /\ req[q].pc \in PostPcs
                  /\ TargetPost(req[q]) = req[r].app.tuitionPostId )
                => req'[q] = req[q]]_vars

\* C5: whenever no payment confirmation is in progress, an Application is
\* `approved` iff a PaymentRecord references it (also after a store call of
\* a confirmation has thrown).
C5_ApprovedIffPaid ==
    (\A r \in Reqs : ~PayInProgress(r)) =>
        \A a \in DOMAIN applications :
            (applications[a].status = "approved")
                <=> (CountMatching(payments, [applicationId |-> a]) >= 1)

\* C6: each post's `applicants` counter equals the number of its
\* Applications whose status is `pending` or `approved`.
C6_ApplicantsCounter ==
    \A t \in DOMAIN tuitions :
        tuitions[t].applicants =
            Cardinality({a \in AppsOf(t) : applications[a].status \in {"pending", "approved"}})

\* C7: at most one Application per (tuition post, tutor) pair.
C7_OneApplicationPerTutor ==
    \A a, b \in DOMAIN applications :
        ( /\ applications[a].tuitionPostId = applications[b].tuitionPostId
          /\ applications[a].tutorId = applications[b].tutorId ) => a = b

(***************************************************************************)
(* Specification SpecReg: registrations.  index.js never calls its         *)
(* createIndexes(), so the unique index on users(email) exists only if the *)
(* standalone script createIndexes.js was run against the store.           *)
(***************************************************************************)
InitReg ==
    /\ users = SeedUsers
    /\ tuitions = SeedTuitions
    /\ applications = EmptyColl
    /\ payments = EmptyBag
    /\ emailIndexed \in BOOLEAN
    /\ nextId = [user |-> 4, tuition |-> 2, app |-> 1]
    /\ req = [r \in Reqs |-> IdleReq]
    /\ started = 0
    /\ faults = 0
    /\ intents = {}

StartRegister ==
    \E r \in Reqs, email \in {"s1", "n1", "n2"}, role \in Roles :
        Start(r, "register", "none", email, 0, 0, role)

RegisterSteps(r) == RegFindExisting(r) \/ RegInsert(r)

NextReg == StartRegister \/ \E r \in Reqs : RegisterSteps(r)

SpecReg == InitReg /\ [][NextReg]_vars

\* C8: an email identifies at most one non-deleted Account.
C8_EmailUnique ==
    \A u, v \in DOMAIN users :
        ( /\ users[u].email = users[v].email
          /\ users[u].status # "deleted"
          /\ users[v].status # "deleted" ) => u = v

(***************************************************************************)
(* Specification SpecAuth: the middleware.  Requests with any credential   *)
(* reach an admin-only, a student-only and a tutor-only route while the    *)
(* admin blocks and unblocks Accounts.                                     *)
(***************************************************************************)
AuthUsers == SeedUsers @@ (4 :> [email |-> "a1", role |-> "admin", status |-> "active"])

InitAuth ==
    /\ users = AuthUsers
    /\ tuitions = SeedTuitions
    /\ applications = EmptyColl
    /\ payments = EmptyBag
    /\ emailIndexed = FALSE
    /\ nextId = [user |-> 5, tuition |-> 2, app |-> 1]
    /\ req = [r \in Reqs |-> IdleReq]
    /\ started = 0
    /\ faults = 0
    /\ intents = {}

\* The credentials a request may carry: none, one the verifier rejects, one
\* for an email without Account, or one for an Account.
AccountTokens == {"a1", "s1", "t1"}
Tokens == {"none", "invalid", "expired", "ghost"} \cup AccountTokens

StartAdminStatus ==
    /\ started < MaxAuthRequests
    /\ \E r \in Reqs, token \in Tokens, u \in {1, 2}, status \in {"blocked", "active"} :
            Start(r, "adminStatus", token, token, u, 0, status)

StartPostTuition ==
    /\ started < MaxAuthRequests
    /\ \E r \in Reqs, token \in AccountTokens : Start(r, "postTuition", token, token, 0, 0, "")

StartApplyAny ==
    /\ started < MaxAuthRequests
    /\ \E r \in Reqs, token \in AccountTokens : Start(r, "apply", token, token, 1, 1, "")

NextAuth ==
    \/ StartAdminStatus \/ StartPostTuition \/ StartApplyAny
    \/ \E r \in Reqs :
        \/ Authenticate(r)
        \/ AdmUpdateStatus(r)
        \/ PostFindStudent(r) \/ PostInsert(r)
        \/ ApplySteps(r)

SpecAuth == InitAuth /\ [][NextAuth]_vars

\* The request r is on a route behind verifyRole and in (or past) it.
Guarded(rq) == rq.op \notin PublicOps \cup {"none"} /\ rq.role # "none"

InHandler(rq) == rq.pc \notin {"idle", "verifyToken", "done"}

\* C9: a handler behind verifyRole(S) runs only for principals whose role is
\* in S; any other resolved principal (a tutor on an admin-only or a
\* student-only route) is answered 403 by the Role Guard, and the step that
\* refuses it writes no store.
C9_RoleGuard ==
    [][\A r \in Reqs :
        /\ (Guarded(req'[r]) /\ req'[r].role \notin AllowedRoles(req'[r].op))
                => /\ req'[r].pc = "done"
                   /\ req'[r].res = Res(403, "")
                   /\ (req'[r] # req[r] => UNCHANGED stores)
        /\ (Guarded(req'[r]) /\ InHandler(req'[r]))
                => req'[r].role \in AllowedRoles(req'[r].op)]_vars

\* A tutor has been refused on the admin-only and on the student-only route.
C9_Witness ==
    \E r, q \in Reqs :
        /\ req[r].op = "adminStatus" /\ req[r].role = "tutor"
        /\ req[r].pc = "done" /\ req[r].res = Res(403, "")
        /\ req[q].op = "postTuition" /\ req[q].role = "tutor"
        /\ req[q].pc = "done" /\ req[q].res = Res(403, "")

\* C10: a request whose Account is `blocked` when verifyToken reads it is
\* answered 403 ACCOUNT_BLOCKED, whatever its route, and never enters its
\* handler.
C10_BlockedRefused ==
    \A r \in Reqs :
        req[r].ustatus = "blocked"
            => req[r].pc = "done" /\ req[r].res = Res(403, "ACCOUNT_BLOCKED")

\* An Account blocked by the admin has been refused on its own route.
C10_Witness ==
    \E r \in Reqs :
        /\ req[r].ustatus = "blocked"
        /\ req[r].token \in {"s1", "t1"}
        /\ req[r].op \in {"postTuition", "apply"}
        /\ req[r].pc = "done"
        /\ req[r].res = Res(403, "ACCOUNT_BLOCKED")

\* C12: the Auth Middleware decides in this order and writes nothing: no
\* credential gives NO_TOKEN; a credential the verifier rejects gives
\* INVALID_TOKEN or TOKEN_EXPIRED; a verified email without Account gives
\* USER_NOT_FOUND; a blocked Account gives ACCOUNT_BLOCKED; otherwise the
\* request goes on with the verified email and the Account's current role.
AuthCodes == {"NO_TOKEN", "INVALID_TOKEN", "TOKEN_EXPIRED", "USER_NOT_FOUND", "ACCOUNT_BLOCKED"}

Refused(rq, s, c) == rq.pc = "done" /\ rq.res = Res(s, c)

StartGetProfile ==
    /\ started < MaxLifeRequests
    /\ \E r \in Reqs, token \in AccountTokens, email \in AccountTokens :
            Start(r, "getProfile", token, email, 0, 0, "")

StartActivity ==
    /\ started < MaxLifeRequests
    /\ \E r \in Reqs, token \in AccountTokens, email \in AccountTokens :
            Start(r, "activity", token, email, 0, 0, "")

NextSelf ==
    \/ StartGetProfile \/ StartActivity
    \/ \E r \in Reqs :
        \/ Authenticate(r)
        \/ ProfFindUser(r)
        \/ ActFindUser(r) \/ ActRead(r)

SpecSelf == InitAuth /\ [][NextSelf]_vars

\* C11: on a self-scoped route, a request of a resolved principal whose
\* `email` parameter differs from the principal's email is refused with
\* UNAUTHORIZED_ACCESS by the step that ends its middleware, which writes
\* no store; so it never reads or writes another Account's data.
C11_IdentityParameter ==
    [][\A r \in Reqs :
        ( /\ req[r].pc = "verifyToken"
          /\ req'[r] # req[r]
          /\ Guarded(req'[r])
          /\ req'[r].role \in AllowedRoles(req[r].op)
          /\ req[r].qemail # req[r].token )
        => /\ req'[r].pc = "done"
           /\ req'[r].res.code = "UNAUTHORIZED_ACCESS"
           /\ UNCHANGED stores]_vars

(***************************************************************************)
(* Specification SpecLife: the life of a tuition post, one request at a    *)
(* time.  The store holds a student's two posts: post 1 still `pending`,   *)
(* post 2 approved by the admin and applied to by tutor t1.  The student   *)
(* edits and deletes posts and confirms the payment, the admin approves    *)
(* and rejects posts, tutor t2 applies.                                    *)
(***************************************************************************)
LifeTuitions ==
    (1 :> [studentId |-> 1, status |-> "pending", applicants |-> 0, tutorId |-> 0]) @@
    (2 :> [studentId |-> 1, status |-> "active", applicants |-> 1, tutorId |-> 0])

LifeApplications ==
    (1 :> [tuitionPostId |-> 2, tutorId |-> 2, status |-> "pending", expectedSalary |-> 1])

InitLife ==
    /\ users = AuthUsers
    /\ tuitions = LifeTuitions
    /\ applications = LifeApplications
    /\ payments = EmptyBag
    /\ emailIndexed = FALSE
    /\ nextId = [user |-> 5, tuition |-> 3, app |-> 2]
    /\ req = [r \in Reqs |-> IdleReq]
    /\ started = 0
    /\ faults = 0
    /\ intents = {}

Posts == {1, 2}

StartEditTuition ==
    /\ started < MaxLifeRequests
    /\ \E r \in Reqs, t \in Posts, status \in {"", "active"} :
            Start(r, "editTuition", "s1", "s1", t, 0, status)

StartDeleteTuition ==
    /\ started < MaxLifeRequests
    /\ \E r \in Reqs, t \in Posts : Start(r, "deleteTuition", "s1", "s1", t, 0, "")

StartAdminTuition ==
    /\ started < MaxLifeRequests
    /\ \E r \in Reqs, t \in Posts, action \in {"approve", "reject"} :
            Start(r, "admTuition", "a1", "a1", t, 0, action)

StartPayLife ==
    /\ started < MaxLifeRequests
    /\ \E r \in Reqs, a \in IssuedApps, txn \in TxnIds :
            Start(r, "paySuccess", "s1", "s1", a, txn, "")

StartApplyLife ==
    /\ started < MaxLifeRequests
    /\ \E r \in Reqs, t \in Posts, salary \in Salaries :
            Start(r, "apply", "t2", "t2", t, salary, "")

EditTuitionSteps(r) ==
    EtFindStudent(r) \/ EtFindTuition(r) \/ EtUpdate(r) \/ EtReadBack(r)

DeleteTuitionSteps(r) ==
    DtFindStudent(r) \/ DtFindTuition(r) \/ DtCount(r) \/ DtRemove(r)

NextLife ==
    \/ Quiescent /\ StartEditTuition
    \/ Quiescent /\ StartDeleteTuition
    \/ Quiescent /\ StartAdminTuition
    \/ Quiescent /\ StartPayLife
    \/ Quiescent /\ StartApplyLife
    \/ \E r \in Reqs :
        \/ Authenticate(r)
        \/ EditTuitionSteps(r) \/ DeleteTuitionSteps(r) \/ AdmSetTuition(r)
        \/ PaySteps(r) \/ ApplySteps(r)

SpecLife == InitLife /\ [][NextLife]_vars

\* The request that takes the step.
Acts(r) == req'[r] # req[r]

\* The posts whose row exists before and after the step.
Kept == DOMAIN tuitions \cap DOMAIN tuitions'

\* C13: a TuitionPost goes from `pending` to `active` or to `rejected` only
\* in a step of an admin's request.
C13_OnlyAdminDecidesPost ==
    [][\A t \in Kept :
        ( /\ tuitions[t].status = "pending"
          /\ tuitions'[t].status \in {"active", "rejected"} )
        => \E r \in Reqs : Acts(r) /\ req[r].role = "admin"]_vars

\* The moves of the state machine; the committed state is `completed`, the
\* status the payment confirmation writes.
PostMoves ==
    {<<"pending", "active">>, <<"pending", "rejected">>,
     <<"active", "completed">>, <<"active", "deleted">>}

\* C14: every status change of a TuitionPost is a move of the state
\* machine: pending to active or rejected, active to committed or deleted,
\* and nothing out of rejected, committed or deleted.
C14_PostStateMachine ==
    [][\A t \in Kept :
        tuitions'[t].status # tuitions[t].status
            => <<tuitions[t].status, tuitions'[t].status>> \in PostMoves]_vars

DeleteCompletes(r) ==
    /\ req[r].op = "deleteTuition"
    /\ req[r].pc = "dtRemove"
    /\ req'[r].pc = "done"
    /\ req'[r].res.status = 200

C15_ApplyOnlyActive ==
    [][\A r \in Reqs :
        ( /\ req[r].op = "apply"
          /\ Acts(r)
          /\ applications' # applications )
        => /\ req[r].arg \in DOMAIN tuitions
           /\ tuitions[req[r].arg].status = "active"]_vars

(***************************************************************************)
(* Specification SpecReview: tutor t1 edits and withdraws its application  *)
(* 1 for post 2 while the student approves it, rejects it or confirms its  *)
(* payment.                                                                *)
(***************************************************************************)
StartEditApp ==
    /\ started < MaxLifeRequests
    /\ \E r \in Reqs, a \in IssuedApps, salary \in Salaries :
            Start(r, "editApp", "t1", "t1", a, salary, "")

StartWithdrawOwn ==
    /\ started < MaxLifeRequests
    /\ \E r \in Reqs, a \in IssuedApps : Start(r, "withdraw", "t1", "t1", a, 0, "")

StartReject ==
    /\ started < MaxLifeRequests
    /\ \E r \in Reqs, a \in IssuedApps : Start(r, "decide", "s1", "s1", a, 0, "reject")

StartApprove ==
    /\ started < MaxLifeRequests
    /\ \E r \in Reqs, a \in IssuedApps : Start(r, "decide", "s1", "s1", a, 0, "approve")

StartPayReview ==
    /\ started < MaxLifeRequests
    /\ \E r \in Reqs, a \in IssuedApps, txn \in TxnIds :
            Start(r, "paySuccess", "s1", "s1", a, txn, "")

EditAppSteps(r) == EdFindTutor(r) \/ EdFindApp(r) \/ EdUpdate(r) \/ EdReadBack(r)

NextReview ==
    \/ StartEditApp \/ StartWithdrawOwn \/ StartReject \/ StartApprove \/ StartPayReview
    \/ \E r \in Reqs :
        \/ Authenticate(r)
        \/ EditAppSteps(r) \/ WithdrawSteps(r) \/ DecideSteps(r) \/ PaySteps(r)

SpecReview == InitLife /\ [][NextReview]_vars

\* C16: a tutor's edit or withdrawal changes an Application only if the
\* Application is `pending` when the change is made.
C16_OnlyPendingEdited ==
    [][\A r \in Reqs :
        ( /\ req[r].op \in {"editApp", "withdraw"}
          /\ Acts(r)
          /\ applications' # applications )
        => FindApp(req[r].arg).status = "pending"]_vars

\* C19: a withdrawal that goes on to decrement the applicants counter has
\* removed its Application itself, while that Application was `pending`
\* (so neither another withdrawal nor a reject has decremented for it).
C19_WithdrawDecrementsOnce ==
    [][\A r \in Reqs :
        ( req[r].pc = "wdDelete" /\ req'[r].pc = "wdDec" )
        => /\ req[r].arg \in DOMAIN applications
           /\ req[r].arg \notin DOMAIN applications'
           /\ applications[req[r].arg].status = "pending"]_vars

\* C20: a reject decision of the owner goes on to set the Application
\* `rejected` and to decrement the applicants counter only if the
\* Application it read was `pending`; otherwise it is refused.
C20_RejectOnlyPending ==
    [][\A r \in Reqs :
        ( /\ req[r].op = "decide"
          /\ Acts(r)
          /\ req[r].pc \in {"decReject", "decDec"} )
        => req[r].app.status = "pending"]_vars

\* The request r is an approve decision in its handler.
Approving(r) == req[r].op = "decide" /\ req[r].str = "approve" /\ InHandler(req[r])

\* C21: no step of an approve decision changes an Application, a
\* TuitionPost or a PaymentRecord (so the Application stays `pending` until
\* a payment confirmation sets it `approved`); the owner's approve of an
\* Application is answered 200.
C21_ApproveWritesNothing ==
    [][\A r \in Reqs : (Approving(r) /\ Acts(r)) =>
            /\ UNCHANGED stores
            /\ req'[r].pc \notin {"decReject", "decDec"}
            /\ (req[r].pc = "decFindTuition" /\ req[r].app.tuitionPostId \in DOMAIN tuitions)
                    => Refused(req'[r], 200, "")]_vars

\* The student's approve of application 1 was answered 200 as the only
\* request so far, and application 1 is still `pending`.
C21_Witness ==
    /\ started = 1
    /\ \E r \in Reqs : req[r].op = "decide" /\ Refused(req[r], 200, "")
    /\ 1 \in DOMAIN applications
    /\ applications[1].status = "pending"
    /\ tuitions[2].applicants = 1
    /\ payments = EmptyBag

(***************************************************************************)
(* Specification SpecScenario: the assignment of a tutor from the start,   *)
(* one request at a time, each request made in the state the scenario      *)
(* gives it.  The store holds the four Accounts and nothing else.  The     *)
(* student posts a tuition; the admin approves it; tutors t1 and t2 apply, *)
(* each once; the student rejects or approves pending Applications and     *)
(* then confirms the payment of one pending Application.                   *)
(***************************************************************************)
InitScenario ==
    /\ users = AuthUsers
    /\ tuitions = EmptyColl
    /\ applications = EmptyColl
    /\ payments = EmptyBag
    /\ emailIndexed = FALSE
    /\ nextId = [user |-> 5, tuition |-> 1, app |-> 1]
    /\ req = [r \in Reqs |-> IdleReq]
    /\ started = 0
    /\ faults = 0
    /\ intents = {}

\* The environment makes its next request when the last one is answered.
Turn == Quiescent /\ started < MaxScenarioRequests

PostIs(t, status) == t \in DOMAIN tuitions /\ tuitions[t].status = status

PendingApps == {a \in DOMAIN applications : applications[a].status = "pending"}

ScnPost ==
    /\ Turn
    /\ tuitions = EmptyColl
    /\ \E r \in Reqs : Arrive(r, "postTuition", "s1", "s1", 0, 0, "")

ScnAdminApprove ==
    /\ Turn
    /\ PostIs(1, "pending")
    /\ \E r \in Reqs : Arrive(r, "admTuition", "a1", "a1", 1, 0, "approve")

ScnApply ==
    /\ Turn
    /\ PostIs(1, "active")
    /\ \E r \in Reqs, tutor \in {"t1", "t2"}, salary \in Salaries :
        /\ \A a \in DOMAIN applications : applications[a].tutorId # FindUserByEmail(tutor)
        /\ Arrive(r, "apply", tutor, tutor, 1, salary, "")

ScnReject ==
    /\ Turn
    /\ payments = EmptyBag
    /\ \E r \in Reqs, a \in PendingApps : Arrive(r, "decide", "s1", "s1", a, 0, "reject")

ScnApprove ==
    /\ Turn
    /\ PostIs(1, "active")
    /\ \E r \in Reqs, a \in PendingApps : Arrive(r, "decide", "s1", "s1", a, 0, "approve")

ScnPay ==
    /\ Turn
    /\ PostIs(1, "active")
    /\ payments = EmptyBag
    /\ \E r \in Reqs, a \in PendingApps, txn \in TxnIds :
            Arrive(r, "paySuccess", "s1", "s1", a, txn, "")

NextScenario ==
    \/ ScnPost \/ ScnAdminApprove \/ ScnApply \/ ScnReject \/ ScnApprove \/ ScnPay
    \/ \E r \in Reqs :
        \/ Authenticate(r)
        \/ PostFindStudent(r) \/ PostInsert(r)
        \/ AdmSetTuition(r)
        \/ ApplySteps(r) \/ DecideSteps(r) \/ PaySteps(r)

SpecScenario == InitScenario /\ [][NextScenario]_vars

\* Exactly n Applications were made so far and every request is answered.
AtRestWith(n) == Quiescent /\ nextId.app = n + 1

\* C22 (scenario A): the post the student created is `pending`; after the
\* admin's approval it is `active`; after tutor T applied, T's Application
\* is `pending` and applicants = 1; after the payment confirmation the
\* Application is `approved`, the post is `completed` with tutor reference
\* T, and the ledger holds exactly one PaymentRecord, for this Application
\* and with amount equal to its expectedSalary.
C22_ScenarioA ==
    /\ (Quiescent /\ started = 1) => PostIs(1, "pending")
    /\ (Quiescent /\ started = 2) => PostIs(1, "active")
    /\ (AtRestWith(1) /\ 1 \in PendingApps) => tuitions[1].applicants = 1
    /\ (AtRestWith(1) /\ payments # EmptyBag) =>
            /\ applications[1].status = "approved"
            /\ PostIs(1, "completed")
            /\ tuitions[1].tutorId = applications[1].tutorId
            /\ tuitions[1].tutorId \in {2, 3}
            /\ BagCardinality(payments) = 1
            /\ \A p \in BagToSet(payments) :
                    /\ p.applicationId = 1
                    /\ p.tuitionId = 1
                    /\ p.amount = applications[1].expectedSalary

\* Scenario A has run to its end with tutor t1.
C22_Witness ==
    /\ AtRestWith(1)
    /\ BagCardinality(payments) = 1
    /\ PostIs(1, "completed")
    /\ tuitions[1].tutorId = 2
    /\ applications[1].status = "approved"

\* The Applications of post 1 that the student has rejected.
RejectedApps == {a \in DOMAIN applications : applications[a].status = "rejected"}

\* The states of scenario B between its requests.
ScenarioB_AtRest ==
    /\ (AtRestWith(2) /\ PendingApps = {1, 2}) => tuitions[1].applicants = 2
    /\ (AtRestWith(2) /\ payments = EmptyBag /\ Cardinality(RejectedApps) = 1
            /\ Cardinality(PendingApps) = 1) => tuitions[1].applicants = 1
    /\ (AtRestWith(2) /\ payments # EmptyBag) =>
            /\ BagCardinality(payments) = 1
            /\ PostIs(1, "completed")
            /\ \E a \in {1, 2} :
                    /\ applications[a].status = "approved"
                    /\ applications[3 - a].status = "rejected"
                    /\ tuitions[1].tutorId = applications[a].tutorId
                    /\ CountMatching(payments, [applicationId |-> a]) = 1

\* C23 (scenario B): with two Applications for the active post applicants
\* = 2; after the student rejected one, applicants = 1 and it is
\* `rejected`; after the payment for the other, that one is `approved`, the
\* post is `completed`, and the rejected Application is still `rejected`:
\* no step of the payment confirmation changes it, and step 3 does not
\* select it.
C23_ScenarioB ==
    [][/\ ScenarioB_AtRest'
       /\ \A r \in Reqs : (req[r].op = "paySuccess" /\ Acts(r)) =>
            \A b \in RejectedApps :
                /\ applications'[b] = applications[b]
                /\ b \notin OtherPending(applications, req[r].app.tuitionPostId, req[r].arg)]_vars

\* Scenario B has run to its end: application 1 (t1 or t2) was rejected
\* by the student while application 2 was pending, and application 2 is paid.
C23_Witness ==
    /\ AtRestWith(2)
    /\ tuitions[1].applicants = 1
    /\ applications[1].status = "rejected"
    /\ applications[2].status = "approved"
    /\ PostIs(1, "completed")
    /\ CountMatching(payments, [applicationId |-> 2]) = 1

\* C24: the ledger is append-only: a step keeps every PaymentRecord, adds
\* one only as step 4 of a payment confirmation, and leaves at most one
\* PaymentRecord per (tuition post, application) pair.
C24_LedgerAppendOnly ==
    [][/\ \A p \in BagToSet(payments) : CopiesIn(p, payments') >= CopiesIn(p, payments)
       /\ payments' # payments =>
            \E r \in Reqs : req[r].op = "paySuccess" /\ req[r].pc = "payInsert" /\ Acts(r)
       /\ \A p \in BagToSet(payments') :
            CountMatching(payments',
                [tuitionId |-> p.tuitionId, applicationId |-> p.applicationId]) <= 1]_vars

(***************************************************************************)
(* Specification SpecPay: two students.  s1 owns both posts; s2 owns       *)
(* none.  Each of them decides on, and confirms the payment of,            *)
(* application 1 for post 2; s1 asks for its charge and tutor t1 edits its *)
(* expectedSalary.                                                         *)
(***************************************************************************)
PayUsers == AuthUsers @@ (5 :> [email |-> "s2", role |-> "student", status |-> "active"])

InitPay ==
    /\ users = PayUsers
    /\ tuitions = LifeTuitions
    /\ applications = LifeApplications
    /\ payments = EmptyBag
    /\ emailIndexed = FALSE
    /\ nextId = [user |-> 6, tuition |-> 3, app |-> 2]
    /\ req = [r \in Reqs |-> IdleReq]
    /\ started = 0
    /\ faults = 0
    /\ intents = {}

Students == {"s1", "s2"}

StartDecideBy ==
    /\ started < MaxLifeRequests
    /\ \E r \in Reqs, student \in Students, a \in IssuedApps, action \in {"approve", "reject"} :
            Start(r, "decide", student, student, a, 0, action)

StartPayBy ==
    /\ started < MaxLifeRequests
    /\ \E r \in Reqs, student \in Students, a \in IssuedApps, txn \in TxnIds :
            Start(r, "paySuccess", student, student, a, txn, "")

\* The student who owns the post asks for the charge of application 1.
StartCreateIntent ==
    /\ started < MaxLifeRequests
    /\ \E r \in Reqs, a \in IssuedApps : Start(r, "createIntent", "s1", "s1", a, 0, "")

\* Tutor t1 edits application 1 and raises its expectedSalary.
StartRaiseSalary ==
    /\ started < MaxLifeRequests
    /\ \E r \in Reqs, a \in IssuedApps : Start(r, "editApp", "t1", "t1", a, MaxSalary + 1, "")

NextPay ==
    \/ StartDecideBy \/ StartPayBy \/ StartCreateIntent \/ StartRaiseSalary
    \/ \E r \in Reqs :
        \/ Authenticate(r)
        \/ DecideSteps(r) \/ PaySteps(r)
        \/ CiFindApp(r) \/ CiFindStudent(r) \/ CiFindTuition(r) \/ CiCreate(r)
        \/ EditAppSteps(r)

SpecPay == InitPay /\ [][NextPay]_vars

\* The request r is in its handler and its principal does not own the post
\* of the Application it names.
NotOwner(r) ==
    LET t == TargetPost(req[r])
    IN  /\ InHandler(req[r])
        /\ t \in DOMAIN tuitions
        /\ tuitions[t].studentId # FindUserByEmail(req[r].token)

\* C25: a payment confirmation by a student who does not own the post of
\* the named Application changes no Application, TuitionPost or
\* PaymentRecord and is answered 403.
C25_NonOwnerPayRefused ==
    [][\A r \in Reqs :
        (req[r].op = "paySuccess" /\ NotOwner(r) /\ Acts(r))
        => /\ UNCHANGED stores
           /\ (req'[r].pc = "done" => req'[r].res.status = 403)]_vars

\* C26: every Account that registration inserts has role student or tutor
\* and starts `pending` when a tutor, `active` when a student.
C26_InitialStatus ==
    [][\A u \in DOMAIN users' \ DOMAIN users :
        /\ \E r \in Reqs : req[r].op = "register" /\ Acts(r)
        /\ users'[u].role \in {"student", "tutor"}
        /\ users'[u].role = "tutor" => users'[u].status = "pending"
        /\ users'[u].role = "student" => users'[u].status = "active"]_vars

\* A tutor and a student have registered.
C26_Witness ==
    \E u, v \in DOMAIN users \ DOMAIN SeedUsers :
        /\ users[u].role = "tutor" /\ users[u].status = "pending"
        /\ users[v].role = "student" /\ users[v].status = "active"


(***************************************************************************)
(* Specification SpecAccounts: the writers of Account rows.  Students,     *)
(* tutors and the admin update and delete their own profile and call the   *)
(* admin's role and status routes, concurrently.                           *)
(***************************************************************************)
StartPutProfile ==
    /\ started < MaxLifeRequests
    /\ \E r \in Reqs, token \in {"s1", "t1"}, bodyRole \in {"", "admin"} :
            Start(r, "putProfile", token, token, 0, 0, bodyRole)

StartDeleteProfile ==
    /\ started < MaxLifeRequests
    /\ \E r \in Reqs, token \in {"s1", "t1"} : Start(r, "deleteProfile", token, "", 0, 0, "")

StartAdminRole ==
    /\ started < MaxLifeRequests
    /\ \E r \in Reqs, token \in {"a1", "t1"}, role \in {"student", "admin"} :
            Start(r, "adminRole", token, token, 2, 0, role)

StartAdminStatusOf ==
    /\ started < MaxLifeRequests
    /\ \E r \in Reqs, token \in {"a1", "s1"} :
            Start(r, "adminStatus", token, token, 1, 0, "blocked")

NextAccounts ==
    \/ StartPutProfile \/ StartDeleteProfile \/ StartAdminRole \/ StartAdminStatusOf
    \/ \E r \in Reqs :
        \/ Authenticate(r)
        \/ PfUpdate(r) \/ PfReadBack(r)
        \/ DelProfile(r)
        \/ AdmUpdateRole(r)
        \/ AdmUpdateStatus(r)

SpecAccounts == InitAuth /\ [][NextAccounts]_vars

\* The step is request r's soft-delete of its caller's own Account u.
OwnSoftDelete(r, u) ==
    /\ req[r].op = "deleteProfile"
    /\ users[u].email = req[r].token
    /\ users'[u] = [users[u] EXCEPT !.status = "deleted"]

\* C27: after creation an Account's role and status are written only by
\* requests of an admin principal: every step that changes the role or the
\* status of an Account is a step of a request whose principal resolved to
\* an admin, or is the soft-delete of the Account by its own holder, which
\* changes the status alone.
C27_OnlyAdminWritesRoleStatus ==
    [][\A u \in DOMAIN users \cap DOMAIN users' :
            (users'[u].role # users[u].role \/ users'[u].status # users[u].status)
                => \E r \in Reqs : /\ Acts(r)
                                   /\ \/ req[r].role = "admin"
                                      \/ OwnSoftDelete(r, u)]_vars

\* The admin changed the tutor's role, a student's call of the admin's
\* status route was refused 403 and a profile update was answered 200.
C27_Witness ==
    /\ users[2].role = "student"
    /\ \E r \in Reqs : req[r].op = "adminStatus" /\ req[r].token = "s1" /\ Refused(req[r], 403, "")
    /\ \E r \in Reqs : req[r].op = "putProfile" /\ Refused(req[r], 200, "")

\* C28: an authenticated DELETE /users/profile soft-deletes the caller's
\* own Account: the handler's step answers 200, after it the caller's
\* Account row exists with status `deleted`, and no other Account changed.
C28_SelfSoftDelete ==
    [][\A r \in Reqs :
            (req[r].op = "deleteProfile" /\ InHandler(req[r]) /\ Acts(r)) =>
                LET u == FindUserByEmail(req[r].token)
                IN  /\ Refused(req'[r], 200, "")
                    /\ u \in DOMAIN users'
                    /\ users'[u].status = "deleted"
                    /\ \A v \in DOMAIN users \ {u} : v \in DOMAIN users' /\ users'[v] = users[v]]_vars

(***************************************************************************)
(* Specification SpecUserDelete: the admin deletes Accounts and student s1 *)
(* deletes post 1 while tutor t1 applies for post 1 and student s2 creates *)
(* a post.                                                                 *)
(***************************************************************************)
InitUserDelete ==
    /\ users = PayUsers
    /\ tuitions = SeedTuitions
    /\ applications = EmptyColl
    /\ payments = EmptyBag
    /\ emailIndexed = FALSE
    /\ nextId = [user |-> 6, tuition |-> 2, app |-> 1]
    /\ req = [r \in Reqs |-> IdleReq]
    /\ started = 0
    /\ faults = 0
    /\ intents = {}

StartAdminDelete ==
    /\ started < MaxLifeRequests
    /\ \E r \in Reqs, u \in {1, 2, 5} : Start(r, "adminDelete", "a1", "a1", u, 0, "")

StartApplyT1 ==
    /\ started < MaxLifeRequests
    /\ \E r \in Reqs : Start(r, "apply", "t1", "t1", 1, 1, "")

StartPostS2 ==
    /\ started < MaxLifeRequests
    /\ \E r \in Reqs : Start(r, "postTuition", "s2", "s2", 0, 0, "")

AdminDeleteSteps(r) == AdCountApps(r) \/ AdCountTuitions(r) \/ AdRemove(r)

NextUserDelete ==
    \/ StartAdminDelete \/ StartApplyT1 \/ StartPostS2 \/ StartDeleteTuition
    \/ \E r \in Reqs :
        \/ Authenticate(r)
        \/ AdminDeleteSteps(r)
        \/ DeleteTuitionSteps(r)
        \/ ApplySteps(r)
        \/ PostFindStudent(r) \/ PostInsert(r)

SpecUserDelete == InitUserDelete /\ [][NextUserDelete]_vars

\* C29: an Account row is never physically removed while an Application or
\* a TuitionPost references it: in every state each Application's tutor and
\* each TuitionPost's owning student is an existing Account row.
C29_ReferencedAccountExists ==
    /\ \A a \in DOMAIN applications : applications[a].tutorId \in DOMAIN users
    /\ \A t \in DOMAIN tuitions : tuitions[t].studentId \in DOMAIN users

\* C30: an edit of a TuitionPost by its owner (PUT /tuitions/:id) leaves the
\* studentId (and studentEmail), the applicants counter and the assigned
\* tutor of every post unchanged, removes no post, and the update it applies
\* sets updatedAt and names no ownership field.
C30_EditFrame ==
    [][\A r \in Reqs :
            (req[r].op = "editTuition" /\ Acts(r)) =>
                /\ \A t \in DOMAIN tuitions :
                        /\ t \in DOMAIN tuitions'
                        /\ tuitions'[t].studentId = tuitions[t].studentId
                        /\ tuitions'[t].applicants = tuitions[t].applicants
                        /\ tuitions'[t].tutorId = tuitions[t].tutorId
                /\ (req[r].pc = "etUpdate" /\ req[r].arg \in DOMAIN tuitions) =>
                        LET updateData == TuitionUpdateData(req[r].str)
                        IN  /\ "updatedAt" \in DOMAIN updateData
                            /\ DOMAIN updateData \cap
                                  {"studentId", "studentEmail", "applicants", "tutorId"} = {}]_vars

\* The owner's edit of post 2 was applied and post 2 still counts its one
\* application.
C30_Witness ==
    \E r \in Reqs :
        /\ req[r].op = "editTuition" /\ req[r].pc = "etReadBack" /\ req[r].arg = 2
        /\ tuitions[2].applicants = 1 /\ tuitions[2].studentId = 1

\* C31: an edit of a TuitionPost by its owner is permitted only while the
\* post is not committed: every step of an edit request for a post that a
\* payment confirmation committed leaves the posts unchanged, and the
\* request is not answered 200.
C31_EditRefusedWhenCommitted ==
    [][\A r \in Reqs :
            (/\ req[r].op = "editTuition" /\ InHandler(req[r]) /\ Acts(r)
             /\ req[r].arg \in DOMAIN tuitions
             /\ tuitions[req[r].arg].status \in LockedStatuses) =>
                /\ tuitions' = tuitions
                /\ ~Refused(req'[r], 200, "")]_vars

(***************************************************************************)
(* Specification SpecPublic: anyone reads the public endpoints while the   *)
(* admin sets the status of tutor t1 and of the posts.                     *)
(***************************************************************************)
StartPublicRead ==
    /\ started < MaxLifeRequests
    /\ \E r \in Reqs, op \in {"getTutors", "getTutor", "getTuitions", "getTuition"}, id \in {1, 2} :
            Start(r, op, "none", "", IF op \in {"getTutor", "getTuition"} THEN id ELSE 0, 0, "")

StartAdminBlock ==
    /\ started < MaxLifeRequests
    /\ \E r \in Reqs, status \in {"blocked", "pending"} :
            Start(r, "adminStatus", "a1", "a1", 2, 0, status)

NextPublic ==
    \/ StartPublicRead \/ StartAdminBlock \/ StartAdminTuition
    \/ \E r \in Reqs :
        \/ Authenticate(r)
        \/ GetTutors(r) \/ GetTutor(r) \/ GtFind(r) \/ GtCount(r) \/ GetTuition(r)
        \/ AdmUpdateStatus(r) \/ AdmSetTuition(r)

SpecPublic == InitLife /\ [][NextPublic]_vars

\* C32: the public read endpoints never return a non-active entity: the
\* Accounts that GET /tutors lists and the Account that GET /tutors/:id
\* sends have role tutor and status `active` when they are read, and the
\* posts that GET /tuitions lists and the post that GET /tuitions/:id sends
\* have status `active`.
C32_PublicReadsOnlyActive ==
    [][\A r \in Reqs :
            (Acts(r) /\ req[r].op \in PublicOps \ {"register"}) =>
                /\ req[r].pc = "getTutors" =>
                        \A u \in ListedTutors(users) :
                            users[u].role = "tutor" /\ users[u].status = "active"
                /\ req[r].pc = "gtFind" =>
                        \A t \in ListedTuitions(tuitions) : tuitions[t].status = "active"
                /\ (req[r].pc = "getTutor" /\ Refused(req'[r], 200, "")) =>
                        /\ users[req'[r].num].role = "tutor"
                        /\ users[req'[r].num].status = "active"
                /\ (req[r].pc = "getTuition" /\ Refused(req'[r], 200, "")) =>
                        tuitions[req'[r].num].status = "active"]_vars

\* C33: an Application's status changes only out of `pending`: `approved`
\* and `rejected` are terminal, so no step of a reject decision or of a
\* payment confirmation changes the status of an Application that is
\* `approved` or `rejected`.
C33_TerminalApplicationStatus ==
    [][\A a \in DOMAIN applications \cap DOMAIN applications' :
            applications'[a].status # applications[a].status
                => applications[a].status = "pending"]_vars

\* C34: in every state a TuitionPost is committed only if its tutor
\* reference is set and is the tutor of an `approved` Application that
\* references the post.
C34_CommittedHasApprovedTutor ==
    \A t \in DOMAIN tuitions :
        tuitions[t].status \in LockedStatuses =>
            /\ tuitions[t].tutorId # 0
            /\ \E a \in DOMAIN applications :
                    /\ applications[a].tuitionPostId = t
                    /\ applications[a].status = "approved"
                    /\ applications[a].tutorId = tuitions[t].tutorId

\* C35: a store failure during a request, the Account lookup of the Auth
\* Middleware included, is reported as a retriable ServiceUnavailable
\* outcome: the step in which a store call of request r throws answers r,
\* once, with status 503, and not with an authentication failure.
C35_StoreFailureIsServiceUnavailable ==
    [][faults' # faults =>
            \A r \in Reqs : Acts(r) =>
                /\ req[r].res = NoRes
                /\ req'[r].pc = "done"
                /\ req'[r].res.status = 503]_vars

(***************************************************************************)
(* Specification SpecPending: tutor t1 has registered and no admin has     *)
(* activated the Account; t1 applies for the active post 1 while the admin *)
(* sets t1's status.                                                       *)
(***************************************************************************)
InitPending ==
    /\ users = [AuthUsers EXCEPT ![2].status = InitialStatus("tutor")]
    /\ tuitions = SeedTuitions
    /\ applications = EmptyColl
    /\ payments = EmptyBag
    /\ emailIndexed = FALSE
    /\ nextId = [user |-> 5, tuition |-> 2, app |-> 1]
    /\ req = [r \in Reqs |-> IdleReq]
    /\ started = 0
    /\ faults = 0
    /\ intents = {}

NextPending ==
    \/ StartApplyT1 \/ StartAdminBlock
    \/ \E r \in Reqs :
        \/ Authenticate(r)
        \/ ApplySteps(r)
        \/ AdmUpdateStatus(r)

SpecPending == InitPending /\ [][NextPending]_vars

\* C36: a tutor Account whose status is still `pending` cannot create an
\* Application: no step of an apply request of a tutor whose Account is
\* `pending` inserts an Application or changes an applicants counter.
C36_PendingTutorCannotApply ==
    [][\A r \in Reqs :
            LET u == FindUserByEmail(req[r].token)
            IN  (/\ req[r].op = "apply" /\ Acts(r)
                 /\ u # 0 /\ users[u].status = "pending") =>
                    /\ applications' = applications
                    /\ tuitions' = tuitions]_vars

\* C37: in every state, under any interleaving of apply, withdraw and
\* reject requests, the applicants counter of every TuitionPost is greater
\* than or equal to zero.
C37_ApplicantsNonNegative ==
    \A t \in DOMAIN tuitions : tuitions[t].applicants >= 0

\* C38: the amount stored in a PaymentRecord equals the amount for which
\* the charge intent of its Application was created: the record that a
\* confirmation inserts carries, in the currency's minor unit (1/100), the
\* amount of every intent created for that Application, whatever the tutor
\* edited in between.
C38_RecordedEqualsCharged ==
    [][\A r \in Reqs :
            (At(r, "payInsert") /\ Acts(r)) =>
                \A i \in intents :
                    i.applicationId = req[r].arg =>
                        \A p \in BagToSet(payments') :
                            (p.applicationId = req[r].arg /\ CopiesIn(p, payments') > CopiesIn(p, payments))
                                => p.amount * 100 = i.amount]_vars

\* C39: in every state every Application references an existing
\* TuitionPost row: a hard delete of a post interleaved with an apply
\* request for that post leaves no Application whose post no longer exists.
C39_ApplicationPostExists ==
    \A a \in DOMAIN applications : applications[a].tuitionPostId \in DOMAIN tuitions

(***************************************************************************)
(* Specification SpecView: the students s1 and s2, the tutor t1 and the    *)
(* admin ask for the student view of the posts of s1, one request at a     *)
(* time, while the admin approves and rejects the posts.                   *)
(***************************************************************************)
StartStudentView ==
    /\ started < MaxLifeRequests
    /\ \E r \in Reqs, token \in {"s1", "s2", "t1", "a1"}, t \in Posts \cup {3} :
            Start(r, "studentView", token, "", t, 0, "")

NextView ==
    \/ Quiescent /\ StartStudentView
    \/ Quiescent /\ StartAdminTuition
    \/ \E r \in Reqs :
        \/ Authenticate(r)
        \/ SvFindTuition(r) \/ SvFindUser(r)
        \/ AdmSetTuition(r)

SpecView == InitPay /\ [][NextView]_vars

\* C40: through GET /tuitions/:id/student-view a student principal is sent
\* a post only if the post is `active` or the student owns it, a non-active
\* post owned by another student is answered 403, and an admin principal is
\* sent any existing post.
C40_StudentView ==
    [][\A r \in Reqs :
            (req[r].op = "studentView" /\ InHandler(req[r]) /\ Acts(r) /\ req'[r].pc = "done") =>
                LET t == req[r].arg
                    caller == FindUserByEmail(req[r].token)
                    visible == tuitions[t].status = "active" \/ tuitions[t].studentId = caller
                IN  /\ Refused(req'[r], 200, "") => t \in DOMAIN tuitions /\ req'[r].num = t
                    /\ (req[r].role = "student" /\ t \in DOMAIN tuitions) =>
                            IF visible THEN Refused(req'[r], 200, "")
                            ELSE Refused(req'[r], 403, "")
                    /\ (req[r].role = "admin" /\ t \in DOMAIN tuitions) =>
                            Refused(req'[r], 200, "")]_vars

\* Student s2 was refused the student view with 403 while post 1, owned by
\* s1, is rejected and post 2 is active.
C40_Witness ==
    /\ tuitions[1].status = "rejected" /\ tuitions[2].status = "active"
    /\ \E r \in Reqs : /\ req[r].op = "studentView" /\ req[r].token = "s2"
                       /\ Refused(req[r], 403, "")

====
